---- MODULE Spec2Model ----
(***************************************************************************)
(* A model of nstore's export serializer (src/common/export_serializer.h): *)
(* ExportSerializeOutput, a cursor that encodes values into a buffer the   *)
(* caller owns, and ExportSerializeInput, a cursor that decodes them.      *)
(*                                                                         *)
(* Conventions of the model                                                *)
(*  - Memory is a window of MemSize bytes of the caller's memory; offsets  *)
(*    are byte addresses relative to the start of the window.  The         *)
(*    Writer's buffer_ is the start of the window.  Accesses that leave    *)
(*    the window are undefined behaviour: they either fault or go on with  *)
(*    bytes the model does not track.                                      *)
(*  - size_t values and pointer offsets are kept modulo 2^64 as the        *)
(*    congruent integer of least magnitude: -1 stands for SIZE_MAX.  The   *)
(*    unsigned order on them is SizeLE.                                    *)
(*  - The host is x86-64: little-endian, two's complement, char signed.    *)
(*  - A 64-bit value is the pair <<lo, hi>> of its 32-bit halves, each     *)
(*    held as a signed 32-bit integer; a float or double is its bit        *)
(*    pattern (writeFloat/readFloat memcpy it to and from an integer).     *)
(*  - assert() is compiled in (a failing assert aborts the process) unless *)
(*    the build defines NDEBUG; both builds are modelled (ndebug).         *)
(***************************************************************************)
EXTENDS Integers, Sequences, FiniteSets, TLC

\* Bytes of caller memory the model tracks, starting at the Writer's buffer.
MemSize == 12
\* Operations issued on one Writer, and on one Reader.
MaxOps == 2

VARIABLES
    ndebug,     \* the build: TRUE when NDEBUG compiles the asserts out
    memory,     \* the tracked window of caller memory, offset -> byte
    position_,  \* Writer: current write position in the buffer
    capacity_,  \* Writer: total bytes the buffer can contain
    current_,   \* Reader: current read position (offset of the pointer)
    end_,       \* Reader: end of the buffer (offset of the pointer)
    data_,      \* the data pointer the Reader was constructed with (not kept by the code)
    phase,      \* "writer" while the Writer is in use, "reader" once a Reader is
    status,     \* "running", "aborted" (a failed assert) or "fault" (a memory fault)
    last,       \* the last operation: its name, argument, result and the state before it
    wlog,       \* the values written so far, in order
    rlog,       \* the values read so far, in order
    nops,       \* operations issued on the Writer
    rops,       \* operations issued on the Reader
    limit       \* operations the caller issues on one Writer, and on one Reader

vars == <<ndebug, memory, position_, capacity_, current_, end_, data_, phase,
          status, last, wlog, rlog, nops, rops, limit>>

Window == 0 .. MemSize - 1

MinInt32 == -2147483647 - 1

----------------------------------------------------------------------------
(* Values and their object representation *)

\* The bytes most significant first: what a writer using network byte order stores.
RECURSIVE BytesBigEndian(_, _)
BytesBigEndian(v, n) ==
    IF n = 0 THEN <<>> ELSE BytesBigEndian(v \div 256, n - 1) \o <<v % 256>>

\* memcpy(dst, &value, n) of an n-byte two's complement integer, little-endian.
RECURSIVE BytesOf(_, _)
BytesOf(v, n) ==
    IF n = 0 THEN <<>> ELSE <<v % 256>> \o BytesOf(v \div 256, n - 1)

\* memcpy(&value, src, sizeof(T)) into a signed T of at most 4 bytes.
RECURSIVE SignedLE(_)
SignedLE(bytes) ==
    IF Len(bytes) = 1
    THEN IF bytes[1] >= 128 THEN bytes[1] - 256 ELSE bytes[1]
    ELSE Head(bytes) + 256 * SignedLE(Tail(bytes))

\* The same for the 8-byte types, as the pair <<lo, hi>>.
Bytes64(v) == BytesOf(v[1], 4) \o BytesOf(v[2], 4)
Signed64(bytes) == <<SignedLE(SubSeq(bytes, 1, 4)), SignedLE(SubSeq(bytes, 5, 8))>>

\* static_cast<uint16_t>(int16_t)
ToUint16(v) == v % 65536

\* static_cast<int8_t>(int)
ToInt8(v) == ((v + 128) % 256) - 128

\* static_cast<int32_t>(size_t): the low 32 bits, read as signed.
ToInt32(x) ==
    LET lo == x % 65536
        hi == (x \div 65536) % 65536
    IN  (IF hi >= 32768 THEN hi - 65536 ELSE hi) * 65536 + lo

\* int32_t -> size_t (the argument of getRawPointer): sign extension, which
\* keeps the representative; a negative length becomes a size near SIZE_MAX.
ToSizeT(i) == i

\* The largest std::size_t, as the integer of least magnitude congruent to it.
SizeMax == -1

\* a <= b on size_t.
SizeLE(a, b) ==
    IF (a >= 0) = (b >= 0) THEN a <= b ELSE a >= 0

\* A conversion that takes only the byte 1 for true.
ToBoolOne(b) == b = 1

\* bool from a byte value: nonzero is true.
ToBool(b) == b # 0

Int8Min == -128
Int8Max == 127

----------------------------------------------------------------------------
(* Memory *)

\* The n bytes at off; a byte outside the window reads as stray.
Load(m, off, n, stray) ==
    [i \in 1 .. n |-> IF (off + i - 1) \in Window THEN m[off + i - 1] ELSE stray]

\* m after memcpy(off, bytes, Len(bytes)); bytes outside the window are not tracked.
Store(m, off, bytes) ==
    [i \in Window |->
        IF i >= off /\ i < off + Len(bytes) THEN bytes[i - off + 1] ELSE m[i]]

\* The access [off, off + n) stays inside the window.
InWindow(off, n) == n = 0 \/ (n > 0 /\ off >= 0 /\ off + n <= MemSize)

\* Bytes a read outside the window may find.
StrayBytes == {0, 255}

Zeros(n) == [i \in 1 .. n |-> 0]

\* The record of an operation, taken in the state it starts in.
Op(o, a, r, out, st, ld) ==
    [op |-> o, side |-> phase, arg |-> a, ret |-> r, outcome |-> out,
     pos |-> position_, cur |-> current_, mem |-> memory,
     stored |-> st, loaded |-> ld]

Span(off, n) == IF n > 0 THEN off .. (off + n - 1) ELSE {}

----------------------------------------------------------------------------
(* ExportSerializeOutput *)

buffer_ == 0

size == position_
data == buffer_

\* The condition assureExpand asserts: capacity_ >= position_ + next_write.
assureExpand(next_write) ==
    LET minimum_desired == position_ + next_write
    IN  SizeLE(minimum_desired, capacity_)

WriterReady == phase = "writer" /\ status = "running" /\ nops < limit

WriterFrame ==
    /\ nops' = nops + 1
    /\ UNCHANGED <<ndebug, capacity_, current_, end_, data_, phase, rlog, rops, limit>>

\* The failing assert of a debug build: abort() before anything is stored.
WriterAbort(o, a) ==
    /\ status' = "aborted"
    /\ last' = Op(o, a, "none", "assert", {}, {})
    /\ UNCHANGED <<memory, position_, wlog>>

\* A memory fault stops the process.
WriterFault(o, a) ==
    /\ status' = "fault"
    /\ last' = Op(o, a, "none", "fault", {}, {})
    /\ UNCHANGED <<memory, position_, wlog>>

\* memcpy of bytes to buffer_ + position_, then position_ += n.
WriterCommit(o, a, bytes, r) ==
    LET n == Len(bytes) IN
    /\ memory' = Store(memory, buffer_ + position_, bytes)
    /\ position_' = position_ + n
    /\ status' = status
    /\ last' = Op(o, a, r, "ok", Span(buffer_ + position_, n), {})
    /\ wlog' = Append(wlog, [kind |-> o, val |-> a, off |-> position_,
                            width |-> n, fits |-> assureExpand(n)])

\* assureExpand(n), memcpy, position_ += n: the body the write operations share.
WriteBody(o, a, bytes) ==
    LET n == Len(bytes) IN
    IF ~ndebug /\ ~assureExpand(n)
    THEN WriterAbort(o, a)
    ELSE IF InWindow(buffer_ + position_, n)
         THEN WriterCommit(o, a, bytes, "void")
         ELSE \/ WriterFault(o, a)
              \/ WriterCommit(o, a, bytes, "void")

\* template <typename T> void writePrimitive(T value)
writePrimitive(o, a, bytes) == WriterFrame /\ WriteBody(o, a, bytes)

CharValues == {65, -1}
ByteValues == {-128, 127}
ShortValues == {-32768, -2, 258}
IntValues == {42, -2, MinInt32}
LongValues == {<<42, 0>>, <<-1, -1>>, <<0, MinInt32>>}
FloatValues == {1065353216, MinInt32}
DoubleValues == {<<0, 1072693248>>, <<1, 2146435072>>}
EnumValues == {-128, 3, 128, 300}
Payloads == {<<>>, <<104, 0, 105>>, <<104, 101, 108, 108, 111>>}
RawBytes == {<<7>>, <<1, 2, 3, 4, 5>>}
ZeroLengths == {0, 3, 5}
ReserveLengths == {0, 1, 2, 4, 5, 8}
\* The positions a caller sets: fixed ones, and the offsets it has recorded.
PositionArgs ==
    {0, 3, capacity_, capacity_ + 1}
        \cup {wlog[i].off : i \in DOMAIN wlog}
        \cup {wlog[i].off + wlog[i].width : i \in DOMAIN wlog}

writeChar ==
    \E value \in CharValues :
        /\ WriterReady
        /\ writePrimitive("char", value, BytesOf(value, 1))

writeByte ==
    \E value \in ByteValues :
        /\ WriterReady
        /\ writePrimitive("byte", value, BytesOf(value, 1))

writeShort ==
    \E value \in ShortValues :
        /\ WriterReady
        /\ writePrimitive("short", value, BytesOf(ToUint16(value), 2))

writeInt ==
    \E value \in IntValues :
        /\ WriterReady
        /\ writePrimitive("int", value, BytesOf(value, 4))

writeBool ==
    \E value \in BOOLEAN :
        /\ WriterReady
        /\ writePrimitive("bool", value, BytesOf(IF value THEN 1 ELSE 0, 1))

writeLong ==
    \E value \in LongValues :
        /\ WriterReady
        /\ writePrimitive("long", value, Bytes64(value))

writeFloat ==
    \E value \in FloatValues :
        /\ WriterReady
        /\ writePrimitive("float", value, BytesOf(value, 4))

writeDouble ==
    \E value \in DoubleValues :
        /\ WriterReady
        /\ writePrimitive("double", value, Bytes64(value))

\* assert(min <= value && value <= max); writeByte(static_cast<int8_t>(value))
EnumInRange(value) == Int8Min <= value /\ value <= Int8Max

writeEnumInSingleByte ==
    \E value \in EnumValues :
        /\ WriterReady
        /\ WriterFrame
        /\ IF ~ndebug /\ ~EnumInRange(value)
           THEN WriterAbort("enum", value)
           ELSE WriteBody("enum", value, BytesOf(ToInt8(value), 1))

\* The length prefix then the payload, as one store of length + 4 bytes.
\* (value, length) is the payload s with length = Len(s).
BinaryStringBytes(s) == BytesOf(ToInt32(Len(s)), 4) \o s

writeBinaryString ==
    \E s \in Payloads :
        /\ WriterReady
        /\ WriterFrame
        /\ WriteBody("bstr", s, BinaryStringBytes(s))

writeBytes ==
    \E s \in RawBytes :
        /\ WriterReady
        /\ WriterFrame
        /\ WriteBody("bytes", s, s)

writeZeros ==
    \E length \in ZeroLengths :
        /\ WriterReady
        /\ WriterFrame
        /\ WriteBody("zeros", length, Zeros(length))

\* The offset reserveBytes would return had it advanced position_ first.
reserveBytesReturnsEnd(length) ==
    /\ WriterFrame
    /\ IF ~ndebug /\ ~assureExpand(length)
       THEN WriterAbort("reserve", length)
       ELSE /\ position_' = position_ + length
            /\ last' = Op("reserve", length, position_ + length, "ok", {}, {})
            /\ wlog' = Append(wlog, [kind |-> "reserve", val |-> length,
                                    off |-> position_, width |-> length,
                                    fits |-> assureExpand(length)])
            /\ UNCHANGED <<memory, status>>

\* assureExpand(length); offset = position_; position_ += length; return offset
reserveBytesOf(length) ==
    /\ WriterFrame
    /\ IF ~ndebug /\ ~assureExpand(length)
       THEN WriterAbort("reserve", length)
       ELSE /\ position_' = position_ + length
            /\ last' = Op("reserve", length, position_, "ok", {}, {})
            /\ wlog' = Append(wlog, [kind |-> "reserve", val |-> length,
                                    off |-> position_, width |-> length,
                                    fits |-> assureExpand(length)])
            /\ UNCHANGED <<memory, status>>

reserveBytes ==
    \E length \in ReserveLengths :
        /\ WriterReady
        /\ reserveBytesOf(length)

\* A position(pos) that only ever moves the cursor forward.
setPositionForward ==
    \E pos \in PositionArgs :
        /\ WriterReady
        /\ WriterFrame
        /\ position_' = IF pos < position_ THEN position_ ELSE pos
        /\ last' = Op("position", pos, "void", "ok", {}, {})
        /\ UNCHANGED <<memory, status, wlog>>

\* void position(std::size_t pos) { position_ = pos; }
setPosition ==
    \E pos \in PositionArgs :
        /\ WriterReady
        /\ WriterFrame
        /\ position_' = pos
        /\ last' = Op("position", pos, "void", "ok", {}, {})
        /\ UNCHANGED <<memory, status, wlog>>

Capacities == {4, 9}

\* The caller's memory before anything is written.
FreshMemory == [i \in Window |-> 170]

\* ExportSerializeOutput(buffer, capacity)
InitWriter ==
    /\ ndebug \in BOOLEAN
    /\ memory = FreshMemory
    /\ position_ = 0
    /\ capacity_ \in Capacities
    /\ current_ = 0
    /\ end_ = 0
    /\ data_ = 0
    /\ phase = "writer"
    /\ status = "running"
    /\ last = Op("new", capacity_, "none", "ok", {}, {})
    /\ wlog = <<>>
    /\ rlog = <<>>
    /\ nops = 0
    /\ rops = 0
    /\ limit = MaxOps

NextWriter ==
    \/ writeChar
    \/ writeByte
    \/ writeShort
    \/ writeInt
    \/ writeBool
    \/ writeLong
    \/ writeFloat
    \/ writeDouble
    \/ writeEnumInSingleByte
    \/ writeBinaryString
    \/ writeBytes
    \/ writeZeros
    \/ reserveBytes
    \/ setPosition

SpecWriter == InitWriter /\ [][NextWriter]_vars

----------------------------------------------------------------------------
(* ExportSerializeInput *)

ReaderReady == phase = "reader" /\ status = "running" /\ rops < limit

ReaderFrame ==
    /\ rops' = rops + 1
    /\ UNCHANGED <<ndebug, memory, position_, capacity_, end_, data_, phase, wlog, nops,
                   limit>>

\* The operation returns value, having loaded n bytes at from and left the cursor at cur.
ReaderCommit(o, a, value, from, n, cur) ==
    /\ current_' = cur
    /\ status' = status
    /\ last' = Op(o, a, value, "ok", {}, Span(from, n))
    /\ rlog' = Append(rlog, [kind |-> o, val |-> value, off |-> from])

\* A memory fault stops the process; the cursor is where the operation left it.
ReaderFault(o, a, cur, ld) ==
    /\ current_' = cur
    /\ status' = "fault"
    /\ last' = Op(o, a, "none", "fault", {}, ld)
    /\ rlog' = rlog

\* The failing assert of a debug build: abort(), the cursor where the operation left it.
ReaderAbort(o, a, cur, ld) ==
    /\ current_' = cur
    /\ status' = "aborted"
    /\ last' = Op(o, a, "none", "assert", {}, ld)
    /\ rlog' = rlog

\* std::string(ptr, n) with n above max_size() throws std::length_error.
ReaderThrow(o, a, cur, ld) ==
    /\ current_' = cur
    /\ status' = status
    /\ last' = Op(o, a, "none", "length_error", {}, ld)
    /\ rlog' = rlog

\* readByte() converted to the type the operation returns.
ByteAsBool(bytes) == ToBool(SignedLE(bytes))
ByteAsChar(bytes) == SignedLE(bytes)

\* The value of type T the bytes hold, T the type operation o returns.
ValueOf(o, bytes) ==
    CASE o \in {"char", "byte", "short", "int", "float"} -> SignedLE(bytes)
      [] o = "bool" -> ByteAsBool(bytes)
      [] o = "enum" -> ByteAsChar(bytes)
      [] o \in {"long", "double"} -> Signed64(bytes)

\* A read that steps over one byte whatever the size of the value.
readPrimitiveByOne(o, n) ==
    /\ ReaderFrame
    /\ IF InWindow(current_, n)
       THEN ReaderCommit(o, "none", ValueOf(o, Load(memory, current_, n, 0)),
                         current_, n, current_ + 1)
       ELSE \/ ReaderFault(o, "none", current_, {})
            \/ \E stray \in StrayBytes :
                   ReaderCommit(o, "none", ValueOf(o, Load(memory, current_, n, stray)),
                                current_, n, current_ + 1)

\* memcpy(&value, current_, sizeof(value)); current_ += sizeof(value); return value
\* Nothing is checked: a read outside the window faults or finds stray bytes.
readPrimitive(o, n) ==
    /\ ReaderFrame
    /\ IF InWindow(current_, n)
       THEN ReaderCommit(o, "none", ValueOf(o, Load(memory, current_, n, 0)),
                         current_, n, current_ + n)
       ELSE \/ ReaderFault(o, "none", current_, {})
            \/ \E stray \in StrayBytes :
                   ReaderCommit(o, "none", ValueOf(o, Load(memory, current_, n, stray)),
                                current_, n, current_ + n)

readChar == ReaderReady /\ readPrimitive("char", 1)

readByte == ReaderReady /\ readPrimitive("byte", 1)

readShort == ReaderReady /\ readPrimitive("short", 2)

readInt == ReaderReady /\ readPrimitive("int", 4)

readBool == ReaderReady /\ readPrimitive("bool", 1)

readEnumInSingleByte == ReaderReady /\ readPrimitive("enum", 1)

readLong == ReaderReady /\ readPrimitive("long", 8)

readFloat == ReaderReady /\ readPrimitive("float", 4)

readDouble == ReaderReady /\ readPrimitive("double", 8)

\* The condition getRawPointer asserts once it has advanced the cursor to cur.
\* Pointers compare by address, and the window does not wrap the address space.
RawPointerAssert(cur) == cur <= end_

\* result = current_; current_ += length; assert(current_ <= end_); return result
getRawPointerOf(length) ==
    LET cur == current_ + length IN
    /\ ReaderFrame
    /\ IF ~ndebug /\ ~RawPointerAssert(cur)
       THEN ReaderAbort("raw", length, cur, {})
       ELSE /\ current_' = cur
            /\ status' = status
            /\ last' = Op("raw", length, current_, "ok", {}, {})
            /\ rlog' = Append(rlog, [kind |-> "raw", val |-> length, off |-> current_])

\* A copy of n bytes that leaves the window by more than the window itself faults.
CanStray(n) == n <= MemSize

\* The bytes std::string(ptr) keeps: those before the first zero byte.
RECURSIVE CStringOf(_)
CStringOf(bytes) ==
    IF bytes = <<>> \/ Head(bytes) = 0
    THEN <<>>
    ELSE <<Head(bytes)>> \o CStringOf(Tail(bytes))

\* The bytes std::string(ptr, n) keeps: all n of them, zero bytes included.
TextOf(bytes) == [i \in 1 .. Len(bytes) |-> bytes[i]]

\* ::memcpy(destination, getRawPointer(length), length)
readBytesOf(o, length) ==
    LET cur == current_ + length IN
    /\ ReaderFrame
    /\ IF ~ndebug /\ ~RawPointerAssert(cur)
       THEN ReaderAbort(o, length, cur, {})
       ELSE IF length >= 0 /\ InWindow(current_, length)
       THEN ReaderCommit(o, length, Load(memory, current_, length, 0),
                         current_, length, cur)
       ELSE \/ ReaderFault(o, length, cur, {})
            \/ /\ length >= 0
               /\ CanStray(length)
               /\ \E stray \in StrayBytes :
                      ReaderCommit(o, length, Load(memory, current_, length, stray),
                                   current_, length, cur)

\* stringLength = readInt(); assert(stringLength >= 0);
\* return std::string(getRawPointer(stringLength), stringLength)
\* prefix is the four bytes readInt loads; the cursor has moved past them when
\* the asserts run.
TextStringOf(prefix) ==
    LET stringLength == SignedLE(prefix)
        payload == current_ + 4
        cur == payload + ToSizeT(stringLength)
    IN  IF ~ndebug /\ stringLength < 0
        THEN ReaderAbort("bstr", stringLength, payload, Span(current_, 4))
        ELSE IF ~ndebug /\ ~RawPointerAssert(cur)
        THEN ReaderAbort("bstr", stringLength, cur, Span(current_, 4))
        ELSE IF stringLength < 0
        THEN \/ ReaderThrow("bstr", stringLength, cur, Span(current_, 4))
             \/ ReaderFault("bstr", stringLength, cur, Span(current_, 4))
        ELSE IF InWindow(payload, stringLength)
        THEN ReaderCommit("bstr", stringLength,
                          TextOf(Load(memory, payload, stringLength, 0)),
                          current_, 4 + stringLength, cur)
        ELSE \/ ReaderFault("bstr", stringLength, cur, Span(current_, 4))
             \/ /\ CanStray(stringLength)
                /\ \E stray \in StrayBytes :
                       ReaderCommit("bstr", stringLength,
                                    TextOf(Load(memory, payload, stringLength, stray)),
                                    current_, 4 + stringLength, cur)

readTextString ==
    /\ ReaderReady
    /\ ReaderFrame
    /\ IF InWindow(current_, 4)
       THEN TextStringOf(Load(memory, current_, 4, 0))
       ELSE \/ ReaderFault("bstr", "none", current_, {})
            \/ \E stray \in StrayBytes : TextStringOf(Load(memory, current_, 4, stray))

RawLengths == {0, 2, 5, SizeMax}
UnreadArgs == {1, 2, 4, 5, 8}

readBytes == \E length \in RawLengths : ReaderReady /\ readBytesOf("bytes", length)

getRawPointer == \E length \in RawLengths : ReaderReady /\ getRawPointerOf(length)

\* An unread that moves the cursor the wrong way.
unreadForward ==
    \E bytes \in UnreadArgs :
        /\ ReaderReady
        /\ ReaderFrame
        /\ current_' = current_ + bytes
        /\ last' = Op("unread", bytes, "void", "ok", {}, {})
        /\ UNCHANGED <<status, rlog>>

\* void unread(size_t bytes) { current_ -= bytes; }
unread ==
    \E bytes \in UnreadArgs :
        /\ ReaderReady
        /\ ReaderFrame
        /\ current_' = current_ - bytes
        /\ last' = Op("unread", bytes, "void", "ok", {}, {})
        /\ UNCHANGED <<status, rlog>>

\* The bytes a Reader is given: each image is padded with zeros to the window.
Images ==
    { <<2, 0, 0, 0, 104, 105, 240, 255, 255, 255>>,
      <<5, 0, 0, 0, 104, 105>> }

ImageMemory(img) == [i \in Window |-> IF i < Len(img) THEN img[i + 1] ELSE 0]

\* The (data, length) a Reader is constructed with.
Regions == { <<0, 6>>, <<6, 4>>, <<2, 3>>, <<0, MemSize>> }

\* ExportSerializeInput(data, length)
InitReader ==
    /\ ndebug \in BOOLEAN
    /\ \E img \in Images : memory = ImageMemory(img)
    /\ position_ = 0
    /\ capacity_ = 0
    /\ \E r \in Regions :
           /\ data_ = r[1]
           /\ current_ = r[1]
           /\ end_ = r[1] + r[2]
    /\ phase = "reader"
    /\ status = "running"
    /\ last = Op("new", end_ - data_, "none", "ok", {}, {})
    /\ wlog = <<>>
    /\ rlog = <<>>
    /\ nops = 0
    /\ rops = 0
    /\ limit = MaxOps

NextReader ==
    \/ readChar
    \/ readByte
    \/ readShort
    \/ readInt
    \/ readBool
    \/ readEnumInSingleByte
    \/ readLong
    \/ readFloat
    \/ readDouble
    \/ readTextString
    \/ readBytes
    \/ getRawPointer
    \/ unread

SpecReader == InitReader /\ [][NextReader]_vars

----------------------------------------------------------------------------
(* A Writer, then a Reader over what it wrote *)

\* A Reader given the whole buffer, not the part of it that was written.
newReaderOverCapacity ==
    /\ phase = "writer"
    /\ status = "running"
    /\ phase' = "reader"
    /\ data_' = data
    /\ current_' = data
    /\ end_' = data + capacity_
    /\ last' = Op("new", capacity_, "none", "ok", {}, {})
    /\ UNCHANGED <<ndebug, memory, position_, capacity_, status, wlog, rlog, nops, rops,
                   limit>>

\* ExportSerializeInput in(out.data(), out.size())
newReader ==
    /\ phase = "writer"
    /\ status = "running"
    /\ phase' = "reader"
    /\ data_' = data
    /\ current_' = data
    /\ end_' = data + size
    /\ last' = Op("new", size, "none", "ok", {}, {})
    /\ UNCHANGED <<ndebug, memory, position_, capacity_, status, wlog, rlog, nops, rops,
                   limit>>

\* The caller reads back what it wrote, in order: the next value to read is
\* the one written by the operation kind.
Expect(kind) ==
    /\ Len(rlog) < Len(wlog)
    /\ wlog[Len(rlog) + 1].kind = kind

ExpectedWidth == wlog[Len(rlog) + 1].width

readBackChar == Expect("char") /\ readChar
readBackByte == Expect("byte") /\ readByte
readBackShort == Expect("short") /\ readShort
readBackInt == Expect("int") /\ readInt
readBackBool == Expect("bool") /\ readBool
readBackEnum == Expect("enum") /\ readEnumInSingleByte
readBackLong == Expect("long") /\ readLong
readBackFloat == Expect("float") /\ readFloat
readBackDouble == Expect("double") /\ readDouble
readBackString == Expect("bstr") /\ readTextString
readBackBytes == Expect("bytes") /\ ReaderReady /\ readBytesOf("bytes", ExpectedWidth)
readBackZeros == Expect("zeros") /\ ReaderReady /\ readBytesOf("zeros", ExpectedWidth)
readBackReserved == Expect("reserve") /\ ReaderReady /\ getRawPointerOf(ExpectedWidth)

Init == InitWriter

Next ==
    \/ writeChar
    \/ writeByte
    \/ writeShort
    \/ writeInt
    \/ writeBool
    \/ writeLong
    \/ writeFloat
    \/ writeDouble
    \/ writeEnumInSingleByte
    \/ writeBinaryString
    \/ writeBytes
    \/ writeZeros
    \/ reserveBytes
    \/ newReader
    \/ readBackChar
    \/ readBackByte
    \/ readBackShort
    \/ readBackInt
    \/ readBackBool
    \/ readBackEnum
    \/ readBackLong
    \/ readBackFloat
    \/ readBackDouble
    \/ readBackString
    \/ readBackBytes
    \/ readBackZeros
    \/ readBackReserved

Spec == Init /\ [][Next]_vars

----------------------------------------------------------------------------
(* The claims *)

\* The bytes an operation of the Writer asks for, from its kind and argument.
Requested(l) ==
    CASE l.op \in {"char", "byte", "bool", "enum"} -> 1
      [] l.op = "short" -> 2
      [] l.op \in {"int", "float"} -> 4
      [] l.op \in {"long", "double"} -> 8
      [] l.op = "bstr" -> Len(l.arg) + 4
      [] l.op = "bytes" -> Len(l.arg)
      [] l.op \in {"zeros", "reserve"} -> l.arg
      [] OTHER -> 0

WriteKinds ==
    {"char", "byte", "short", "int", "bool", "long", "float", "double", "enum",
     "bstr", "bytes", "zeros"}

FixedKinds ==
    {"char", "byte", "short", "int", "bool", "long", "float", "double", "enum"}

\* The operation refused to go on: an assert stopped it, or it threw.  This
\* is the weakest reading of "reports the error": an abort counts.
Refused == last.outcome \in {"assert", "length_error"}

ByWriter == last.side = "writer" /\ last.op # "new"
ByReader == last.side = "reader" /\ last.op # "new"

\* C1: the Writer's position never exceeds its capacity, whatever operations
\* were issued, position(pos) with any argument included.
C1_PositionWithinCapacity ==
    status = "running" => SizeLE(position_, capacity_)

\* C2: the Reader's current never exceeds its end, whatever operations were
\* issued.
C2_CurrentWithinEnd ==
    (phase = "reader" /\ status = "running") => current_ <= end_

\* C3: a write that asks for more bytes than remain (position + length >
\* capacity) is refused, stores no byte and leaves position where it was.
C3_OverrunRefused ==
    (ByWriter /\ last.op \in WriteKinds /\ last.pos + Requested(last) > capacity_)
        => (Refused /\ memory = last.mem /\ position_ = last.pos)

\* C4: a fixed-width read or a text read whose width would take current past
\* end is refused, and loads no byte at or beyond end.
C4_ReadRefusedAtEnd ==
    /\ (ByReader /\ last.op \in FixedKinds /\ last.cur + Requested(last) > end_)
           => (Refused /\ \A o \in last.loaded : o < end_)
    /\ (/\ ByReader
        /\ last.op = "bstr"
        /\ last.outcome # "fault"
        /\ (last.cur + 4 > end_ \/ (last.arg >= 0 /\ last.cur + 4 + last.arg > end_)))
           => (Refused /\ \A o \in last.loaded : o < end_)

\* C5: an operation that fails and returns to its caller leaves its cursor
\* where it was before the call: a text read whose prefix is readable and whose length is negative or
\* longer than what remains leaves current unchanged, and a binary string that
\* does not fit stores neither its prefix nor its payload.
C5_FailureAtomic ==
    status = "running" =>
        /\ Refused => (current_ = last.cur /\ position_ = last.pos /\ memory = last.mem)
        /\ (/\ ByReader
            /\ last.op = "bstr"
            /\ last.cur >= data_
            /\ last.cur + 4 <= end_
            /\ (last.arg < 0 \/ last.cur + 4 + last.arg > end_))
               => current_ = last.cur
        /\ (ByWriter /\ last.op = "bstr" /\ last.pos + Requested(last) > capacity_)
               => (memory = last.mem /\ position_ = last.pos)

\* C6: a text read that decodes a negative length is refused, and neither
\* loads a byte nor leaves the cursor outside the region [data, end).
C6_NegativeLengthRefused ==
    (/\ ByReader
     /\ last.op = "bstr"
     /\ last.cur >= data_
     /\ last.cur + 4 <= end_
     /\ last.outcome # "fault"
     /\ last.arg < 0)
        => /\ Refused
           /\ data_ <= current_
           /\ current_ <= end_
           /\ \A o \in last.loaded : data_ <= o /\ o < end_

\* C7: unread(bytes) with more bytes than were consumed is refused and does
\* not take current before the start of the buffer.
C7_RewindRefused ==
    (ByReader /\ last.op = "unread" /\ last.cur >= data_ /\ last.arg > last.cur - data_)
        => (Refused /\ current_ >= data_)

\* C8: an enum tag outside [-128, 127] is refused: no byte is stored, and
\* position stays where it was.
C8_EnumRangeRefused ==
    (ByWriter /\ last.op = "enum" /\ ~(-128 <= last.arg /\ last.arg <= 127))
        => (Refused /\ memory = last.mem /\ position_ = last.pos)

\* Entry i of the write log was written inside the buffer's capacity, with a
\* value its type holds.
Written(i) ==
    /\ wlog[i].fits
    /\ wlog[i].kind = "enum" => (-128 <= wlog[i].val /\ wlog[i].val <= 127)

\* C9: a value of a primitive type written at an offset of the buffer and read
\* with the read of its type at that offset is returned unchanged.
C9_RoundTrip ==
    \A i \in 1 .. Len(rlog) :
        (wlog[i].kind \in FixedKinds /\ Written(i))
            => /\ rlog[i].kind = wlog[i].kind
               /\ rlog[i].off = data_ + wlog[i].off
               /\ rlog[i].val = wlog[i].val

\* A negative 16-bit value written at a nonzero offset has been read back.
C9_Witness ==
    \E i \in 1 .. Len(rlog) :
        /\ wlog[i].kind = "short"
        /\ wlog[i].off > 0
        /\ Written(i)
        /\ wlog[i].val < 0
        /\ rlog[i].kind = "short"
        /\ rlog[i].off = data_ + wlog[i].off
        /\ rlog[i].val = wlog[i].val

\* C10: a binary string of N bytes that fits advances position by N + 4, and
\* the text read of what was written returns exactly those N bytes, zero
\* bytes included, and advances current by N + 4.
C10_LengthPrefixFidelity ==
    /\ (ByWriter /\ last.op = "bstr" /\ last.pos + Requested(last) <= capacity_)
           => (last.outcome = "ok" /\ position_ = last.pos + Len(last.arg) + 4)
    /\ \A i \in 1 .. Len(wlog) :
           (/\ ByReader
            /\ last.op = "bstr"
            /\ wlog[i].kind = "bstr"
            /\ wlog[i].fits
            /\ last.cur = data_ + wlog[i].off)
               => /\ last.outcome = "ok"
                  /\ Len(last.ret) = Len(wlog[i].val)
                  /\ last.ret = wlog[i].val
                  /\ current_ = last.cur + Len(wlog[i].val) + 4

\* A payload holding a zero byte was written, and read back whole.
C10_Witness ==
    /\ ByReader
    /\ last.op = "bstr"
    /\ last.outcome = "ok"
    /\ last.ret = <<104, 0, 105>>
    /\ current_ = last.cur + 7
    /\ \E i \in 1 .. Len(wlog) : wlog[i].kind = "bstr" /\ wlog[i].val = last.ret

----------------------------------------------------------------------------
(* Back-patching: reserve a slot, write the payload, come back to fill the slot *)

\* The entry of the write log that reserved the slot, 0 before there is one.
Slot ==
    IF \E i \in DOMAIN wlog : wlog[i].kind = "reserve"
    THEN CHOOSE i \in DOMAIN wlog :
             /\ wlog[i].kind = "reserve"
             /\ \A j \in 1 .. (i - 1) : wlog[j].kind # "reserve"
    ELSE 0

\* How far the caller is in the sequence.
PatchStage ==
    CASE Slot = 0 -> "lead"
      [] Slot > 0 /\ Len(wlog) = Slot -> "reserved"
      [] Slot > 0 /\ Len(wlog) = Slot + 1 /\ last.op # "position" -> "written"
      [] Slot > 0 /\ Len(wlog) = Slot + 1 /\ last.op = "position" -> "sought"
      [] Slot > 0 /\ Len(wlog) = Slot + 2 /\ last.op # "position" -> "patched"
      [] OTHER -> "restored"

\* The steps the sequence takes after what the caller wrote ahead of it.
PatchSteps == {"reserve", "payload", "seek", "patch", "restore"}

\* The widths a fixed-width value can fill.
SlotWidths == {Len(BytesOf(0, 1)), Len(BytesOf(0, 2)), Len(BytesOf(0, 4)), Len(Bytes64(<<0, 0>>))}

patchLead ==
    /\ PatchStage = "lead"
    /\ Len(wlog) + Cardinality(PatchSteps) < limit
    /\ writeBytes

patchReserve ==
    /\ PatchStage = "lead"
    /\ reserveBytes
    /\ last'.op = "reserve"
    /\ last'.arg \in SlotWidths

patchPayloadBytes ==
    /\ PatchStage = "reserved"
    /\ writeBytes

patchPayloadInt ==
    /\ PatchStage = "reserved"
    /\ writeInt

\* position(o), o the offset reserveBytes returned
patchSeek ==
    /\ PatchStage = "written"
    /\ setPosition
    /\ last'.arg = wlog[Slot].off

patchByte ==
    /\ PatchStage = "sought"
    /\ wlog[Slot].width = Len(BytesOf(0, 1))
    /\ writeByte

patchShort ==
    /\ PatchStage = "sought"
    /\ wlog[Slot].width = Len(BytesOf(0, 2))
    /\ writeShort

patchInt ==
    /\ PatchStage = "sought"
    /\ wlog[Slot].width = Len(BytesOf(0, 4))
    /\ writeInt

patchLong ==
    /\ PatchStage = "sought"
    /\ wlog[Slot].width = Len(Bytes64(<<0, 0>>))
    /\ writeLong

\* position(o + k + m), the end of the payload
patchRestore ==
    /\ PatchStage = "patched"
    /\ setPosition
    /\ last'.arg = wlog[Slot + 1].off + wlog[Slot + 1].width

InitPatch ==
    /\ ndebug \in BOOLEAN
    /\ memory = FreshMemory
    /\ position_ = 0
    /\ capacity_ \in Capacities
    /\ current_ = 0
    /\ end_ = 0
    /\ data_ = 0
    /\ phase = "writer"
    /\ status = "running"
    /\ last = Op("new", capacity_, "none", "ok", {}, {})
    /\ wlog = <<>>
    /\ rlog = <<>>
    /\ nops = 0
    /\ rops = 0
    /\ limit = MaxOps - 1 + Cardinality(PatchSteps)

NextPatch ==
    \/ patchLead
    \/ patchReserve
    \/ patchPayloadBytes
    \/ patchPayloadInt
    \/ patchSeek
    \/ patchByte
    \/ patchShort
    \/ patchInt
    \/ patchLong
    \/ patchRestore

SpecPatch == InitPatch /\ [][NextPatch]_vars

\* The bytes entry e of the write log stored, as the buffer holds them now.
Held(e) == Load(memory, buffer_ + e.off, e.width, 0)

\* C11: when a slot of k bytes is reserved at offset o, m payload bytes are
\* written, the position is set to o, a k-byte value x is written and the
\* position is set to o + k + m, all of it inside the capacity, then
\* reserveBytes returned o, the bytes [o, o + k) hold x, the payload bytes
\* [o + k, o + k + m) are as they were written, and size() is o + k + m.
C11_BackPatch ==
    /\ (PatchStage = "reserved" /\ last.op = "reserve")
           => last.ret = wlog[Slot].off
    /\ (/\ PatchStage = "restored"
        /\ wlog[Slot].off + wlog[Slot].width + wlog[Slot + 1].width <= capacity_)
           => /\ status = "running"
              /\ wlog[Slot + 2].off = wlog[Slot].off
              /\ wlog[Slot + 2].width = wlog[Slot].width
              /\ ValueOf(wlog[Slot + 2].kind, Held(wlog[Slot + 2])) = wlog[Slot + 2].val
              /\ wlog[Slot + 1].off = wlog[Slot].off + wlog[Slot].width
              /\ wlog[Slot + 1].kind = "bytes" => Held(wlog[Slot + 1]) = wlog[Slot + 1].val
              /\ wlog[Slot + 1].kind = "int"
                     => SignedLE(Held(wlog[Slot + 1])) = wlog[Slot + 1].val
              /\ size = wlog[Slot].off + wlog[Slot].width + wlog[Slot + 1].width

\* A 2-byte slot reserved at offset 1 was filled with -2 after a payload of
\* five bytes, and the position is back at the end of the payload.
C11_Witness ==
    /\ PatchStage = "restored"
    /\ wlog[Slot].off = 1
    /\ wlog[Slot].width = 2
    /\ wlog[Slot + 1].val = <<1, 2, 3, 4, 5>>
    /\ wlog[Slot + 2].kind = "short"
    /\ wlog[Slot + 2].val = -2
    /\ Held(wlog[Slot + 2]) = <<254, 255>>
    /\ Held(wlog[Slot + 1]) = <<1, 2, 3, 4, 5>>
    /\ size = 8

----------------------------------------------------------------------------
(* Reading again: a fixed-width read, unread of its width, the same read *)

RereadSteps == <<"read", "unread", "again">>

\* What the caller does next.
RereadTurn == RereadSteps[(rops % Len(RereadSteps)) + 1]

\* The read of this kind is the caller's next step.
Rereads(kind) ==
    \/ RereadTurn = "read"
    \/ RereadTurn = "again" /\ last.op = "unread" /\ rlog[Len(rlog)].kind = kind

rereadChar == Rereads("char") /\ readChar
rereadByte == Rereads("byte") /\ readByte
rereadShort == Rereads("short") /\ readShort
rereadInt == Rereads("int") /\ readInt
rereadBool == Rereads("bool") /\ readBool
rereadEnum == Rereads("enum") /\ readEnumInSingleByte
rereadLong == Rereads("long") /\ readLong
rereadFloat == Rereads("float") /\ readFloat
rereadDouble == Rereads("double") /\ readDouble

\* unread(w), w the width of the read just made
rereadUnread ==
    /\ RereadTurn = "unread"
    /\ last.op \in FixedKinds
    /\ unread
    /\ last'.arg = Requested(last)

InitReread ==
    /\ ndebug \in BOOLEAN
    /\ \E img \in Images : memory = ImageMemory(img)
    /\ position_ = 0
    /\ capacity_ = 0
    /\ \E r \in Regions :
           /\ data_ = r[1]
           /\ current_ = r[1]
           /\ end_ = r[1] + r[2]
    /\ phase = "reader"
    /\ status = "running"
    /\ last = Op("new", end_ - data_, "none", "ok", {}, {})
    /\ wlog = <<>>
    /\ rlog = <<>>
    /\ nops = 0
    /\ rops = 0
    /\ limit = MaxOps - 1 + Len(RereadSteps)

NextReread ==
    \/ rereadChar
    \/ rereadByte
    \/ rereadShort
    \/ rereadInt
    \/ rereadBool
    \/ rereadEnum
    \/ rereadLong
    \/ rereadFloat
    \/ rereadDouble
    \/ rereadUnread

SpecReread == InitReread /\ [][NextReread]_vars

\* The read, unread, read sequence has just been run to its end.
Reread == rops > 0 /\ RereadTurn = "read" /\ last.op \in FixedKinds

\* The entry of the read log the first read of the sequence made.
FirstRead ==
    IF status = "running" THEN rlog[Len(rlog) - 1] ELSE rlog[Len(rlog)]

\* C12: with at least w bytes remaining, a fixed-width read of width w, then
\* unread(w), then the same read: both reads return the same value, from the
\* same place, and current ends where the first read left it.
C12_RewindReread ==
    (/\ Reread
     /\ data_ <= FirstRead.off
     /\ FirstRead.off + Requested(last) <= end_)
        => /\ status = "running"
           /\ last.outcome = "ok"
           /\ rlog[Len(rlog)].kind = FirstRead.kind
           /\ rlog[Len(rlog)].off = FirstRead.off
           /\ rlog[Len(rlog)].val = FirstRead.val
           /\ last.ret = FirstRead.val
           /\ current_ = FirstRead.off + Requested(last)

\* A negative int was read at offset 6, unread and read again.
C12_Witness ==
    /\ Reread
    /\ status = "running"
    /\ last.op = "int"
    /\ FirstRead.off = 6
    /\ FirstRead.val = -16
    /\ last.ret = -16
    /\ current_ = 10
    /\ end_ = 10

----------------------------------------------------------------------------
(* Lengths near the top of std::size_t *)

\* Lengths so large that adding them to a position, or 4 to them, wraps.
WrapLengths == {SizeMax, SizeMax - 3}

\* A memcpy or memset of more bytes than any memory holds stores the bytes
\* done and then faults; position_ += is not reached.
WriterOverrun(o, a, done) ==
    /\ status' = "fault"
    /\ memory' = Store(memory, buffer_ + position_, done)
    /\ last' = Op(o, a, "none", "fault", Span(buffer_ + position_, Len(done)), {})
    /\ UNCHANGED <<position_, wlog>>

\* The bytes from position_ to the end of the window, all b.
Fill(from, b) == [i \in 1 .. (MemSize - from) |-> b]

\* writeBinaryString(value, length) with such a length: the prefix is
\* static_cast<int32_t>(length), the check is assureExpand(length + 4).
writeBinaryStringWrapped ==
    \E length \in WrapLengths :
        LET stringLength == ToInt32(length)
            prefix == BytesOf(stringLength, 4)
        IN  /\ WriterReady
            /\ WriterFrame
            /\ IF ~ndebug /\ ~assureExpand(length + Len(prefix))
               THEN WriterAbort("bstrlen", length)
               ELSE IF ~InWindow(buffer_ + position_, Len(prefix))
                    THEN WriterFault("bstrlen", length)
                    ELSE \/ WriterOverrun("bstrlen", length, prefix)
                         \/ \E b \in StrayBytes :
                                WriterOverrun("bstrlen", length,
                                              prefix \o Fill(position_ + Len(prefix), b))

\* writeZeros(length) with such a length.
writeZerosWrapped ==
    \E length \in WrapLengths :
        /\ WriterReady
        /\ WriterFrame
        /\ IF ~ndebug /\ ~assureExpand(length)
           THEN WriterAbort("zeros", length)
           ELSE IF ~InWindow(buffer_ + position_, 1)
                THEN WriterFault("zeros", length)
                ELSE \/ WriterOverrun("zeros", length, <<>>)
                     \/ WriterOverrun("zeros", length, Fill(position_, 0))

\* reserveBytes(length) with such a length.
reserveBytesWrapped ==
    \E length \in WrapLengths :
        /\ WriterReady
        /\ reserveBytesOf(length)

NextWrap ==
    \/ NextWriter
    \/ writeBinaryStringWrapped
    \/ writeZerosWrapped
    \/ reserveBytesWrapped

SpecWrap == InitWriter /\ [][NextWrap]_vars

\* The length a binary string was written with, as a std::size_t.
LengthOf(l) == IF l.op = "bstr" THEN Len(l.arg) ELSE l.arg

\* The signed 32-bit prefix the buffer holds where the last operation began.
StoredPrefix == SignedLE(Load(memory, buffer_ + last.pos, 4, 0))

\* C13: whenever writeBinaryString passes its capacity check and stores a
\* prefix, the prefix is not negative and is the length it was called with.
C13_PrefixIsLength ==
    (/\ ByWriter
     /\ last.op \in {"bstr", "bstrlen"}
     /\ last.outcome # "assert"
     /\ SizeLE(last.pos + LengthOf(last) + 4, capacity_)
     /\ Span(buffer_ + last.pos, 4) \subseteq last.stored)
        => /\ StoredPrefix >= 0
           /\ StoredPrefix = LengthOf(last)

\* C14: reserveBytes(length) with position + length <= capacity returns the
\* position it was called at, moves position forward by length, and changes
\* neither a byte of the buffer nor the capacity.
C14_ReserveFrame ==
    [][(/\ last'.op = "reserve"
        /\ nops' = nops + 1
        /\ last'.arg >= 0
        /\ SizeLE(position_, capacity_)
        /\ position_ + last'.arg <= capacity_)
           => /\ last'.outcome = "ok"
              /\ last'.ret = position_
              /\ position_' = position_ + last'.arg
              /\ memory' = memory
              /\ capacity_' = capacity_
              /\ status' = status]_vars

\* Four bytes were reserved at offset 5 of a buffer that holds written bytes.
C14_Witness ==
    /\ ByWriter
    /\ last.op = "reserve"
    /\ last.outcome = "ok"
    /\ last.arg = 4
    /\ last.pos = 5
    /\ last.ret = 5
    /\ position_ = 9
    /\ capacity_ = 9
    /\ memory = last.mem
    /\ memory[0] # FreshMemory[0]

----------------------------------------------------------------------------
(* Booleans: a Writer that stores them, a Reader over any byte *)

\* Every value a byte of the Reader's memory can have.
ByteRange == 0 .. (Int8Max - Int8Min)

\* ExportSerializeInput in(buffer, MemSize), every byte of buffer being b
InitBoolReader ==
    /\ ndebug \in BOOLEAN
    /\ \E b \in ByteRange : memory = [i \in Window |-> b]
    /\ position_ = 0
    /\ capacity_ = 0
    /\ data_ = 0
    /\ current_ = 0
    /\ end_ = MemSize
    /\ phase = "reader"
    /\ status = "running"
    /\ last = Op("new", end_ - data_, "none", "ok", {}, {})
    /\ wlog = <<>>
    /\ rlog = <<>>
    /\ nops = 0
    /\ rops = 0
    /\ limit = MaxOps

InitBool == InitWriter \/ InitBoolReader

NextBool ==
    \/ writeBool
    \/ readBool

SpecBool == InitBool /\ [][NextBool]_vars

\* C15: writeBool stores the one byte 1 for true and 0 for false; readBool
\* returns true for every nonzero byte and false only for the byte 0.
C15_BooleanEncoding ==
    /\ (ByWriter /\ last.op = "bool" /\ last.outcome = "ok" /\ InWindow(last.pos, 1))
           => /\ last.stored = {buffer_ + last.pos}
              /\ memory[buffer_ + last.pos] = (IF last.arg THEN 1 ELSE 0)
              /\ \A i \in Window \ last.stored : memory[i] = last.mem[i]
    /\ (ByReader /\ last.op = "bool" /\ last.outcome = "ok" /\ InWindow(last.cur, 1))
           => /\ last.loaded = {last.cur}
              /\ last.ret = (last.mem[last.cur] # 0)

\* readBool returned true for a byte that is neither 0 nor 1.
C15_Witness ==
    /\ ByReader
    /\ last.op = "bool"
    /\ last.outcome = "ok"
    /\ last.mem[last.cur] = 128
    /\ last.ret = TRUE

----------------------------------------------------------------------------
(* What size() reports *)

\* The offsets the Writer has reached: the end of each write or reservation,
\* and the position the caller has just set.
Reached ==
    {0} \cup {wlog[i].off + wlog[i].width : i \in DOMAIN wlog}
        \cup (IF last.op = "position" THEN {last.arg} ELSE {})

\* The highest of them: the number of bytes written or reserved.
Extent == CHOOSE x \in Reached : \A y \in Reached : y <= x

\* C16: size() is the number of bytes written or reserved, the highest offset
\* reached, also while the caller has set the position back to an earlier
\* offset.
C16_SizeIsExtent ==
    status = "running" => size = Extent

----------------------------------------------------------------------------
(* Cursor bookkeeping *)

\* The width of each fixed-width type, in bytes.
KindWidth(kind) ==
    CASE kind \in {"char", "byte", "bool", "enum"} -> 1
      [] kind = "short" -> 2
      [] kind \in {"int", "float"} -> 4
      [] kind \in {"long", "double"} -> 8

\* The bytes entry e of a log accounts for: its type's width, 4 + N for a
\* string of N bytes, N for N raw bytes, the length asked for otherwise.
EntryWidth(e) ==
    CASE e.kind \in FixedKinds -> KindWidth(e.kind)
      [] e.kind = "bstr" -> 4 + Len(e.val)
      [] e.kind = "bytes" -> Len(e.val)
      [] OTHER -> e.val

RECURSIVE SumWidths(_)
SumWidths(log) ==
    IF log = <<>> THEN 0 ELSE EntryWidth(Head(log)) + SumWidths(Tail(log))

\* The read log, with the length asked for in place of the bytes a readBytes
\* of zeros or of reserved bytes returned.
ReadWidths ==
    [i \in DOMAIN rlog |->
        IF rlog[i].kind = "zeros"
        THEN [kind |-> "bytes", val |-> rlog[i].val, off |-> rlog[i].off]
        ELSE rlog[i]]

\* C17: a fixed-width operation that succeeds moves its cursor by the width
\* of its type; with no position(pos) call size() is the sum of the widths
\* written, and with no unread the Reader has consumed the sum of the widths
\* read, as long as every read it was asked for succeeded.
C17_CursorBookkeeping ==
    /\ (ByWriter /\ last.op \in FixedKinds /\ last.outcome = "ok")
           => position_ = last.pos + KindWidth(last.op)
    /\ (ByReader /\ last.op \in FixedKinds /\ last.outcome = "ok")
           => current_ = last.cur + KindWidth(last.op)
    /\ size = SumWidths(wlog)
    /\ (phase = "reader" /\ status = "running" /\ rops = Len(rlog))
           => current_ - data_ = SumWidths(ReadWidths)

\* Two values of different widths were written and read back: ten bytes.
C17_Witness ==
    /\ phase = "reader"
    /\ status = "running"
    /\ Len(rlog) = 2
    /\ rlog[1].kind = "short"
    /\ rlog[2].kind = "double"
    /\ size = 10
    /\ current_ - data_ = 10

----------------------------------------------------------------------------
(* Which way the Reader's cursor moves *)

\* C18: no Reader operation other than unread moves current backward: after
\* any other operation that returns to its caller, by returning or by
\* throwing, current is at or beyond where it was.
C18_ReaderMonotonic ==
    (ByReader /\ last.op # "unread" /\ status = "running")
        => current_ >= last.cur

----------------------------------------------------------------------------
(* The stream a Writer leaves, read by a Reader *)

\* The kind of read that matches a write of this kind.
ReadKind(kind) == IF kind = "reserve" THEN "raw" ELSE kind

\* What the matching read of entry e of the write log returns: the value
\* written, the zeros of writeZeros, and for reserved bytes nothing but
\* their length.
ReadValue(e) ==
    IF e.kind = "zeros" THEN Zeros(e.val) ELSE e.val

\* C19: when every write of a sequence starting at position 0, with no
\* repositioning, was inside the capacity with a value its type holds, a
\* Reader over (data(), size()) that makes the matching reads in order never
\* fails, returns the values written in the order written, loads no byte at
\* or beyond end, and is at end once it has read them all.
C19_StreamRoundTrip ==
    (phase = "reader" /\ \A i \in DOMAIN wlog : Written(i))
        => /\ status = "running"
           /\ rops = Len(rlog)
           /\ \A i \in 1 .. Len(rlog) :
                  /\ rlog[i].kind = ReadKind(wlog[i].kind)
                  /\ rlog[i].off = data_ + wlog[i].off
                  /\ rlog[i].val = ReadValue(wlog[i])
           /\ ByReader => \A o \in last.loaded : data_ <= o /\ o < end_
           /\ current_ <= end_
           /\ Len(rlog) = Len(wlog) => current_ = end_

\* A string holding a zero byte and a short, nine bytes, were read back.
C19_Witness ==
    /\ phase = "reader"
    /\ status = "running"
    /\ Len(wlog) = 2
    /\ Len(rlog) = 2
    /\ wlog[1].kind = "bstr"
    /\ wlog[2].kind = "short"
    /\ rlog[1].val = <<104, 0, 105>>
    /\ rlog[2].val = -32768
    /\ current_ = end_
    /\ end_ = data_ + 9

----------------------------------------------------------------------------
(* The capacity check and requests that wrap *)

\* The operations that call assureExpand.
CheckedKinds == WriteKinds \cup {"reserve", "bstrlen"}

\* position + the length asked for, as numbers, is more than the capacity: a
\* length of 2^63 or more is, whatever the position.
Exceeds(l) ==
    IF l.op \in {"zeros", "reserve", "bstrlen"} /\ l.arg < 0
    THEN TRUE
    ELSE l.pos + Requested(l) > capacity_

\* C20: in a build that keeps the check of assureExpand, every request whose
\* position + length exceeds the capacity is stopped by it, with no byte
\* stored and position where it was, also when position + length (or
\* length + 4 in writeBinaryString) wraps around.
C20_WrapRejected ==
    (ByWriter /\ ~ndebug /\ last.op \in CheckedKinds /\ last.pos >= 0 /\ Exceeds(last))
        => /\ last.outcome = "assert"
           /\ memory = last.mem
           /\ position_ = last.pos

====
